---- MODULE Spec2Model ----
(***************************************************************************)
(* Ride-sharing web application, src/src/server.js: the HTTP handlers that *)
(* create, accept and update rides, the driver-application workflow, the   *)
(* WebSocket broadcast and the distance/fare estimator.                    *)
(*                                                                         *)
(* Every asynchronous handler is split at its awaits: Issue* is the        *)
(* synchronous part up to the first db.execute, Db* is the statement       *)
(* executing in MySQL (or throwing), Cont* is the continuation that        *)
(* broadcasts and writes the response.  Handlers of different requests     *)
(* interleave at these points, as they do on Node's event loop with a      *)
(* connection pool.                                                        *)
(***************************************************************************)
EXTENDS Integers, Sequences, FiniteSets, TLC

(***************************************************************************)
(* Bounds of the model.                                                    *)
(***************************************************************************)
MaxReqs == 3

(***************************************************************************)
(* Fixed-point arithmetic.  JavaScript numbers are doubles; the model      *)
(* computes the same expressions on integers: coordinates in thousandths   *)
(* of a degree, angles in units of 10^-7 rad, distances in millimetres.    *)
(***************************************************************************)
Thousand == 10 * 100
Million == Thousand * Thousand

Abs(x) == IF x < 0 THEN -x ELSE x

Sgn(x) == IF x < 0 THEN -1 ELSE 1

RECURSIVE SqrtIter(_, _)
SqrtIter(n, x) ==
    LET y == (x + n \div x) \div 2
    IN  IF y >= x THEN x ELSE SqrtIter(n, y)

\* Math.sqrt on a non-negative integer: the integer square root.
ISqrt(n) == IF n < 2 THEN n ELSE SqrtIter(n, n)

\* Math.sin of a small angle in units of 10^-7 rad, result in units of 10^-7
\* (x - x^3/6; the half-angles of a city-scale trip stay below 0.005 rad).
SinSmall(x) ==
    LET m == Abs(x)
    IN  Sgn(x) * (m - (((m * m) \div (10 * Million)) * m) \div (60 * Million))

\* Math.cos of an angle in units of 10^-7 rad, result in ten-thousandths
\* (1 - x^2/2 + x^4/24 - x^6/720 on the angle in ten-thousandths of a radian).
CosOf(x) ==
    LET s  == 10 * Thousand
        t  == Abs(x) \div Thousand
        t2 == (t * t) \div s
        t4 == (t2 * t2) \div s
        t6 == (t4 * t2) \div s
    IN  s - t2 \div 2 + t4 \div 24 - t6 \div 720

\* Math.atan2(y, x) for 0 <= y << x, y in units of 10^-7 and x in millionths,
\* result in units of 10^-7 rad (t - t^3/3 on the quotient t = y/x).
Atan2Small(y, x) ==
    LET t == (y * Thousand) \div (x \div Thousand)
    IN  t - (((t * t) \div (10 * Million)) * t) \div (30 * Million)

\* Math.round of num/den for num >= 0: floor(x + 0.5).
RoundDiv(num, den) == (2 * num + den) \div (2 * den)

(***************************************************************************)
(* Distance and fare (server.js 137-143, 308-322).                         *)
(***************************************************************************)
EarthRadiusKm == 6371

\* deg * (Math.PI/180): thousandths of a degree to units of 10^-7 rad
\* (PI/180 = 0.0174532925...).
deg2rad(deg) ==
    Sgn(deg) * ((Abs(deg) * 17453) \div 100 + (Abs(deg) * 2925) \div Million)

\* The haversine distance, in millimetres.
getDistanceFromLatLonInKm(lat1, lon1, lat2, lon2) ==
    LET dLat == deg2rad(lat2 - lat1)
        dLon == deg2rad(lon2 - lon1)
        sLat == Abs(SinSmall(Sgn(dLat) * (Abs(dLat) \div 2)))
        sLon == Abs(SinSmall(Sgn(dLon) * (Abs(dLon) \div 2)))
        cc   == (CosOf(deg2rad(lat1)) * CosOf(deg2rad(lat2)))
                    \div (10 * Thousand)
        \* a in units of 10^-14
        a    == sLat * sLat + (((cc * sLon) \div Thousand) * sLon) \div 10
        \* c in units of 10^-7 rad
        c    == 2 * Atan2Small(ISqrt(a),
                               Thousand * ISqrt(Million - a \div (100 * Million)))
        \* R km times c * 10^-7 is R * c tenths of a millimetre
    IN  (EarthRadiusKm * c) \div 10

\* straightDist * 1.5, in millimetres.
EstRoadDist(straightDist) == (straightDist * 3) \div 2

BaseFare == 50
PerKm == 40
MinFare == 100

\* FareOf without the minimum fare.
FareOfNoFloor(estRoadDist) ==
    RoundDiv(BaseFare * Million + estRoadDist * PerKm, Million)

\* let fare = Math.round(50 + (estRoadDist * 40)); if (fare < 100) fare = 100;
FareOf(estRoadDist) ==
    LET fare == RoundDiv(BaseFare * Million + estRoadDist * PerKm, Million)
    IN  IF fare < MinFare THEN MinFare ELSE fare

\* estRoadDist.toFixed(2): kilometres rounded to hundredths, as hundredths.
ToFixed2(estRoadDist) == RoundDiv(estRoadDist, 10 * Thousand)

\* estRoadDist.toFixed(1): kilometres rounded to tenths, as tenths.
ToFixed1(estRoadDist) == RoundDiv(estRoadDist, 100 * Thousand)

Pt(lat, lng) == [lat |-> lat, lng |-> lng]

\* Coordinates a client may send, in thousandths of a degree.
Points == {Pt(27700, 85300), Pt(27705, 85300), Pt(27717, 85324)}

\* The trips requested where the fare is not what is examined.
Trips == {<<Pt(27700, 85300), Pt(27700, 85300)>>,
          <<Pt(27700, 85300), Pt(27717, 85324)>>}

(***************************************************************************)
(* Inputs a client may send.  Identifiers are opaque to the server: no     *)
(* handler checks that a passengerId, driverId or userId names a user.     *)
(***************************************************************************)
Passengers == {1}
Drivers == {2, 3}
RideIds == {1, 2}
StatusInputs == {"requested", "declined", "cancelled", "completed"}
Peers == {"A", "B", "C"}
Usernames == {"ann", "bob"}
UserIds == {1, 2}
AppIds == {1, 2}
Verdicts == {"approved", "rejected"}

\* Column defaults of the tables: the INSERT statements name neither
\* ride_requests.status, ride_requests.driver_id, driver_applications.status
\* nor users.is_verified.
DefaultRideStatus == "requested"
NoDriver == 0
DefaultAppStatus == "pending"
DefaultVerified == FALSE

NoPoint == Pt(0, 0)

VARIABLES
    rides,      \* table ride_requests: row i has id i
    users,      \* table users: row i has id i
    apps,       \* table driver_applications: row i has application_id i
    clients,    \* wss.clients, in insertion order
    ready,      \* readyState of each peer's socket
    inbox,      \* what each peer has been sent, in order
    bcast,      \* the events handed to broadcast(), in order
    reqs        \* the HTTP requests received so far, each with its handler's
                \* position, locals and response

vars == <<rides, users, apps, clients, ready, inbox, bcast, reqs>>
dbVars == <<rides, users, apps>>
wsVars == <<clients, ready, inbox, bcast>>

\* A request: its body fields, the handler's locals (dist, fare, insertId),
\* where the handler is ("db": a statement is pending, "db2": the second
\* statement of /api/admin/verify is pending, "cont": the statement has
\* returned and the continuation has not run, "done": the response is
\* written), the response code and, as `pre`, the status the UPDATE found in
\* the row it matched ("none": it matched no row, "": it has not run).
BlankReq ==
    [kind |-> "", pc |-> "db", code |-> 0, rideId |-> 0, userId |-> 0,
     passengerId |-> 0, status |-> "", appId |-> 0,
     pickup |-> NoPoint, drop |-> NoPoint, dist |-> 0, fare |-> 0,
     name |-> "", insertId |-> 0, pre |-> ""]

\* The request as it was received.
Body(r) == [r EXCEPT !.pc = "db", !.code = 0, !.insertId = 0, !.pre = ""]

Init ==
    /\ rides = << >>
    /\ users = << >>
    /\ apps = << >>
    /\ clients = << >>
    /\ ready = [p \in Peers |-> "CLOSED"]
    /\ inbox = [p \in Peers |-> << >>]
    /\ bcast = << >>
    /\ reqs = {}

\* A request arrives.  The model takes each request body at most once, and
\* MaxReqs requests in all.
Receive(r) ==
    /\ Cardinality(reqs) < MaxReqs
    /\ \A o \in reqs : Body(o) # r
    /\ reqs' = reqs \cup {r}

Pending(r, kind, pc) ==
    /\ r \in reqs
    /\ r.kind = kind
    /\ r.pc = pc

Step(r, n) == reqs' = (reqs \ {r}) \cup {n}

\* sendError(res, status, message)
sendError(r, status) == Step(r, [r EXCEPT !.pc = "done", !.code = status])

\* res.writeHead(status); res.end(...)
respond(r, status) == Step(r, [r EXCEPT !.pc = "done", !.code = status])

(***************************************************************************)
(* WebSocket server (server.js 293-300).                                   *)
(***************************************************************************)
\* Connect that replays the earlier events to the new socket.
ConnectReplay(p) ==
    /\ ready[p] = "CLOSED"
    /\ clients' = Append(clients, p)
    /\ ready' = [ready EXCEPT ![p] = "OPEN"]
    /\ inbox' = [inbox EXCEPT ![p] = inbox[p] \o bcast]
    /\ UNCHANGED <<rides, users, apps, bcast, reqs>>

\* A peer opens a socket: ws adds it to wss.clients, OPEN.
Connect(p) ==
    /\ ready[p] = "CLOSED"
    /\ clients' = Append(clients, p)
    /\ ready' = [ready EXCEPT ![p] = "OPEN"]
    /\ UNCHANGED <<rides, users, apps, inbox, bcast, reqs>>

\* The closing handshake starts: the socket is CLOSING and still in
\* wss.clients.
StartClose(p) ==
    /\ ready[p] = "OPEN"
    /\ ready' = [ready EXCEPT ![p] = "CLOSING"]
    /\ UNCHANGED <<rides, users, apps, clients, inbox, bcast, reqs>>

\* The socket's 'close' event: ws removes it from wss.clients.
Closed(p) ==
    /\ ready[p] # "CLOSED"
    /\ clients' = SelectSeq(clients, LAMBDA c : c # p)
    /\ ready' = [ready EXCEPT ![p] = "CLOSED"]
    /\ UNCHANGED <<rides, users, apps, inbox, bcast, reqs>>

\* The positions of wss.clients at which client.send is called.
OpenAt == {i \in DOMAIN clients : ready[clients[i]] = "OPEN"}

\* client.send either hands the frame to the socket or throws.  k is the
\* position of the client whose send throws, 0 when none does.
SendOutcomes == {0} \cup OpenAt

\* The clients that are sent the event when the send at position k throws:
\* an exception thrown by send leaves forEach.
SentTo(k) == {clients[i] : i \in {j \in OpenAt : k = 0 \/ j < k}}

\* broadcast without the readyState test: every socket in wss.clients is
\* sent the event.
broadcastNoStateTest(data, k) ==
    /\ inbox' = [p \in Peers |->
                    IF \E i \in DOMAIN clients :
                          clients[i] = p /\ (k = 0 \/ i < k)
                    THEN Append(inbox[p], data)
                    ELSE inbox[p]]
    /\ bcast' = Append(bcast, data)
    /\ UNCHANGED <<clients, ready>>

\* wss.clients.forEach(client => { if (client.readyState === WebSocket.OPEN)
\* client.send(JSON.stringify(data)); })
broadcast(data, k) ==
    /\ inbox' = [p \in Peers |->
                    IF p \in SentTo(k) THEN Append(inbox[p], data)
                    ELSE inbox[p]]
    /\ bcast' = Append(bcast, data)
    /\ UNCHANGED <<clients, ready>>

\* db.execute rejects: the catch block answers 500.
DbFail(r) ==
    /\ r \in reqs
    /\ r.pc \in {"db", "db2"}
    /\ sendError(r, 500)
    /\ UNCHANGED <<dbVars, wsVars>>

(***************************************************************************)
(* /api/request-ride (server.js 130-174).                                  *)
(***************************************************************************)
NewRideEvent(r) ==
    [type |-> "NEW_RIDE_REQUEST", rideId |-> r.insertId,
     passengerId |-> r.passengerId, pickup |-> r.pickup, drop |-> r.drop,
     fare |-> r.fare, dist |-> ToFixed1(r.dist)]

\* The body is parsed, distance and fare are computed, db.execute is called.
IssueRequestRide(passengerId, pickup, drop) ==
    /\ LET straightDist == getDistanceFromLatLonInKm(pickup.lat, pickup.lng,
                                                     drop.lat, drop.lng)
           estRoadDist  == EstRoadDist(straightDist)
       IN  Receive([BlankReq EXCEPT !.kind = "request",
                                    !.passengerId = passengerId,
                                    !.pickup = pickup, !.drop = drop,
                                    !.dist = estRoadDist,
                                    !.fare = FareOf(estRoadDist)])
    /\ UNCHANGED <<dbVars, wsVars>>

\* INSERT INTO ride_requests (passenger_id, pickup_lat, pickup_lng,
\* dropoff_lat, dropoff_lng, distance_km, fare)
InsertRide(r) ==
    Append(rides,
           [passengerId |-> r.passengerId, pickup |-> r.pickup,
            dropoff |-> r.drop, distanceKm |-> ToFixed2(r.dist),
            fare |-> r.fare, status |-> DefaultRideStatus,
            driverId |-> NoDriver])

\* The INSERT executes; result.insertId is the new row's id.
DbRequestRide(r) ==
    /\ Pending(r, "request", "db")
    /\ rides' = InsertRide(r)
    /\ Step(r, [r EXCEPT !.pc = "cont", !.insertId = Len(rides) + 1])
    /\ UNCHANGED <<users, apps, wsVars>>

\* The continuation: broadcast, then the 200 response; an exception thrown
\* inside broadcast reaches the catch block, which answers 500.
ContRequestRide(r) ==
    /\ Pending(r, "request", "cont")
    /\ \E k \in SendOutcomes :
          /\ broadcast(NewRideEvent(r), k)
          /\ IF k = 0 THEN respond(r, 200) ELSE sendError(r, 500)
    /\ UNCHANGED dbVars

(***************************************************************************)
(* /api/accept-ride (server.js 177-191).                                   *)
(***************************************************************************)
AcceptedEvent(r) ==
    [type |-> "RIDE_ACCEPTED", rideId |-> r.rideId, driverId |-> r.userId,
     passengerId |-> r.passengerId]

IssueAccept(rideId, driverId, passengerId) ==
    /\ Receive([BlankReq EXCEPT !.kind = "accept", !.rideId = rideId,
                                !.userId = driverId,
                                !.passengerId = passengerId])
    /\ UNCHANGED <<dbVars, wsVars>>

\* The status of the row with this id, "none" when there is no such row.
StoredStatus(rideId) ==
    IF rideId \in DOMAIN rides THEN rides[rideId].status ELSE "none"

\* UpdateAccept that writes the driver into passenger_id as well.
UpdateAcceptClobber(rideId, driverId) ==
    [i \in DOMAIN rides |->
        IF i = rideId
        THEN [rides[i] EXCEPT !.status = "accepted", !.driverId = driverId,
                              !.passengerId = driverId]
        ELSE rides[i]]

\* UPDATE ride_requests SET status = 'accepted', driver_id = ? WHERE id = ?
UpdateAccept(rideId, driverId) ==
    [i \in DOMAIN rides |->
        IF i = rideId
        THEN [rides[i] EXCEPT !.status = "accepted", !.driverId = driverId]
        ELSE rides[i]]

DbAccept(r) ==
    /\ Pending(r, "accept", "db")
    /\ rides' = UpdateAccept(r.rideId, r.userId)
    /\ Step(r, [r EXCEPT !.pc = "cont", !.pre = StoredStatus(r.rideId)])
    /\ UNCHANGED <<users, apps, wsVars>>

ContAccept(r) ==
    /\ Pending(r, "accept", "cont")
    /\ \E k \in SendOutcomes :
          /\ broadcast(AcceptedEvent(r), k)
          /\ IF k = 0 THEN respond(r, 200) ELSE sendError(r, 500)
    /\ UNCHANGED dbVars

(***************************************************************************)
(* /api/update-ride-status (server.js 194-216).                            *)
(***************************************************************************)
StatusEvent(r) ==
    [type |-> "STATUS_UPDATE", rideId |-> r.rideId, status |-> r.status,
     updaterId |-> r.userId]

IssueUpdateStatus(rideId, status, userId) ==
    /\ Receive([BlankReq EXCEPT !.kind = "update", !.rideId = rideId,
                                !.status = status, !.userId = userId])
    /\ UNCHANGED <<dbVars, wsVars>>

\* UpdateStatus without the WHERE clause: every row is updated.
UpdateStatusNoWhere(rideId, status) ==
    [i \in DOMAIN rides |-> [rides[i] EXCEPT !.status = status]]

\* UPDATE ride_requests SET status = ? WHERE id = ?
UpdateStatus(rideId, status) ==
    [i \in DOMAIN rides |->
        IF i = rideId THEN [rides[i] EXCEPT !.status = status] ELSE rides[i]]

DbUpdateStatus(r) ==
    /\ Pending(r, "update", "db")
    /\ rides' = UpdateStatus(r.rideId, r.status)
    /\ Step(r, [r EXCEPT !.pc = "cont", !.pre = StoredStatus(r.rideId)])
    /\ UNCHANGED <<users, apps, wsVars>>

ContUpdateStatus(r) ==
    /\ Pending(r, "update", "cont")
    /\ \E k \in SendOutcomes :
          /\ broadcast(StatusEvent(r), k)
          /\ IF k = 0 THEN respond(r, 200) ELSE sendError(r, 500)
    /\ UNCHANGED dbVars

(***************************************************************************)
(* /api/signup (server.js 38-56).                                          *)
(***************************************************************************)
IssueSignup(username) ==
    /\ Receive([BlankReq EXCEPT !.kind = "signup", !.name = username])
    /\ UNCHANGED <<dbVars, wsVars>>

\* INSERT INTO users (..., role) VALUES (..., 'passenger')
InsertUser(r) ==
    Append(users, [username |-> r.name, role |-> "passenger",
                   verified |-> DefaultVerified])

\* The INSERT executes and the handler answers 201.
DbSignup(r) ==
    /\ Pending(r, "signup", "db")
    /\ users' = InsertUser(r)
    /\ respond(r, 201)
    /\ UNCHANGED <<rides, apps, wsVars>>

(***************************************************************************)
(* /api/apply-driver (server.js 84-126).                                   *)
(***************************************************************************)
IssueApply(userId) ==
    /\ Receive([BlankReq EXCEPT !.kind = "apply", !.userId = userId])
    /\ UNCHANGED <<dbVars, wsVars>>

\* INSERT INTO driver_applications (user_id, ...)
InsertApplication(r) ==
    Append(apps, [userId |-> r.userId, status |-> DefaultAppStatus])

\* DbApply that grants the driver role on submission.
DbApplyPromotes(r) ==
    /\ Pending(r, "apply", "db")
    /\ apps' = InsertApplication(r)
    /\ users' = [i \in DOMAIN users |->
                    IF i = r.userId THEN [users[i] EXCEPT !.role = "driver"]
                    ELSE users[i]]
    /\ respond(r, 200)
    /\ UNCHANGED <<rides, wsVars>>

\* The INSERT executes and the handler answers 200.
DbApply(r) ==
    /\ Pending(r, "apply", "db")
    /\ apps' = InsertApplication(r)
    /\ respond(r, 200)
    /\ UNCHANGED <<rides, users, wsVars>>

(***************************************************************************)
(* /api/admin/verify (server.js 244-271).                                  *)
(***************************************************************************)
IssueVerify(applicationId, userId, status) ==
    /\ Receive([BlankReq EXCEPT !.kind = "verify", !.appId = applicationId,
                                !.userId = userId, !.status = status])
    /\ UNCHANGED <<dbVars, wsVars>>

\* The status of the application with this id, "none" when there is none.
StoredAppStatus(applicationId) ==
    IF applicationId \in DOMAIN apps THEN apps[applicationId].status
    ELSE "none"

\* UPDATE driver_applications SET status = ? WHERE application_id = ?
UpdateApplication(applicationId, status) ==
    [i \in DOMAIN apps |->
        IF i = applicationId THEN [apps[i] EXCEPT !.status = status]
        ELSE apps[i]]

\* PromoteUser without is_verified = 1.
PromoteUserRoleOnly(userId) ==
    [i \in DOMAIN users |->
        IF i = userId THEN [users[i] EXCEPT !.role = "driver"] ELSE users[i]]

\* UPDATE users SET role = 'driver', is_verified = 1 WHERE id = ?
PromoteUser(userId) ==
    [i \in DOMAIN users |->
        IF i = userId
        THEN [users[i] EXCEPT !.role = "driver", !.verified = TRUE]
        ELSE users[i]]

\* The first statement executes; if (status === 'approved') the second is
\* issued, otherwise the handler answers 200.
DbVerify(r) ==
    /\ Pending(r, "verify", "db")
    /\ apps' = UpdateApplication(r.appId, r.status)
    /\ Step(r, [r EXCEPT !.pc = IF r.status = "approved" THEN "db2"
                                ELSE "done",
                         !.code = IF r.status = "approved" THEN 0 ELSE 200,
                         !.pre = StoredAppStatus(r.appId)])
    /\ UNCHANGED <<rides, users, wsVars>>

\* The second statement executes and the handler answers 200.
DbVerifyUser(r) ==
    /\ Pending(r, "verify", "db2")
    /\ users' = PromoteUser(r.userId)
    /\ respond(r, 200)
    /\ UNCHANGED <<rides, apps, wsVars>>

(***************************************************************************)
(* The ride handlers with no peer connected.                               *)
(***************************************************************************)
Next ==
    \/ \E u \in Passengers, t \in Trips : IssueRequestRide(u, t[1], t[2])
    \/ \E i \in RideIds, d \in Drivers, u \in Passengers : IssueAccept(i, d, u)
    \/ \E i \in RideIds, s \in StatusInputs, u \in Passengers :
          IssueUpdateStatus(i, s, u)
    \/ \E r \in reqs : DbRequestRide(r)
    \/ \E r \in reqs : DbAccept(r)
    \/ \E r \in reqs : DbUpdateStatus(r)
    \/ \E r \in reqs : DbFail(r)
    \/ \E r \in reqs : ContRequestRide(r)
    \/ \E r \in reqs : ContAccept(r)
    \/ \E r \in reqs : ContUpdateStatus(r)

Spec == Init /\ [][Next]_vars

(***************************************************************************)
(* One ride requested and accepted, with peers connecting and closing.      *)
(***************************************************************************)
WsNext ==
    \/ \E p \in Peers : Connect(p)
    \/ \E p \in Peers : StartClose(p)
    \/ \E p \in Peers : Closed(p)
    \/ IssueRequestRide(1, Pt(27700, 85300), Pt(27717, 85324))
    \/ IssueAccept(1, 2, 1)
    \/ \E r \in reqs : DbRequestRide(r)
    \/ \E r \in reqs : DbAccept(r)
    \/ \E r \in reqs : DbFail(r)
    \/ \E r \in reqs : ContRequestRide(r)
    \/ \E r \in reqs : ContAccept(r)

WsSpec == Init /\ [][WsNext]_vars

(***************************************************************************)
(* Ride requests over every pair of points.                                *)
(***************************************************************************)
FareNext ==
    \/ \E u \in Passengers, a \in Points, b \in Points :
          IssueRequestRide(u, a, b)
    \/ \E r \in reqs : DbRequestRide(r)
    \/ \E r \in reqs : DbFail(r)
    \/ \E r \in reqs : ContRequestRide(r)

FareSpec == Init /\ [][FareNext]_vars

(***************************************************************************)
(* The driver-verification handlers.                                       *)
(***************************************************************************)
AdminNext ==
    \/ \E n \in Usernames : IssueSignup(n)
    \/ \E u \in UserIds : IssueApply(u)
    \/ \E a \in AppIds, u \in UserIds, v \in Verdicts : IssueVerify(a, u, v)
    \/ \E r \in reqs : DbSignup(r)
    \/ \E r \in reqs : DbApply(r)
    \/ \E r \in reqs : DbVerify(r)
    \/ \E r \in reqs : DbVerifyUser(r)
    \/ \E r \in reqs : DbFail(r)

AdminSpec == Init /\ [][AdminNext]_vars

(***************************************************************************)
(* Vocabulary of the properties.                                           *)
(***************************************************************************)
Terminal == {"completed", "declined", "cancelled"}

Last(q) == q[Len(q)]

Range(q) == {q[i] : i \in DOMAIN q}

\* The requests of a kind that name ride i.
OnRide(kind, i) == {r \in reqs : r.kind = kind /\ r.rideId = i}

\* The UPDATE of request r has run and matched a row.
Matched(r) == r.pre \notin {"", "none"}

\* In this step request r moves on, to n.
Moves(r, n) ==
    /\ r \in reqs /\ r \notin reqs'
    /\ n \in reqs' /\ n \notin reqs
    /\ Body(n) = Body(r)

(***************************************************************************)
(* C1.  For a ride that is in status requested, when two or more accept    *)
(* calls from distinct drivers have all run to their end (and nothing else *)
(* has touched the ride), exactly one of them reports success, every other *)
(* one reports Conflict (409), and the ride's driverId is the driverId of  *)
(* the one that reported success.                                          *)
(***************************************************************************)
C1_OneAcceptWins ==
    \A i \in DOMAIN rides :
        LET A == OnRide("accept", i)
        IN  (/\ Cardinality(A) >= 2
             /\ \A r \in A : r.pc = "done" /\ Matched(r)
             /\ OnRide("update", i) = {})
            => \E w \in A :
                  /\ w.code = 200
                  /\ \A o \in A \ {w} : o.code = 409
                  /\ rides[i].driverId = w.userId

(***************************************************************************)
(* C2.  An accept whose UPDATE finds the ride in a status other than       *)
(* requested leaves the ride as it is, answers Conflict (409) and          *)
(* broadcasts no RIDE_ACCEPTED event.                                      *)
(***************************************************************************)
C2_AcceptConflict ==
    [][/\ \A r \in reqs :
            (/\ r.kind = "accept" /\ r.pc = "db" /\ r \notin reqs'
             /\ StoredStatus(r.rideId) \notin {"requested", "none"})
            => rides' = rides
       /\ \A n \in reqs' :
            (/\ n.kind = "accept" /\ n.pc = "done"
             /\ Matched(n) /\ n.pre # "requested")
            => /\ n.code = 409
               /\ AcceptedEvent(n) \notin Range(bcast')]_vars

(***************************************************************************)
(* C3.  Once a ride is completed, declined or cancelled its record never   *)
(* changes again, and an updateStatus that finds it so answers             *)
(* InvalidTransition (400).                                                *)
(***************************************************************************)
C3_TerminalIsFinal ==
    [][/\ \A i \in DOMAIN rides :
            rides[i].status \in Terminal => rides'[i] = rides[i]
       /\ \A n \in reqs' :
            (n.kind = "update" /\ n.pc = "done" /\ n.pre \in Terminal)
            => n.code = 400]_vars

(***************************************************************************)
(* C4.  When every handler has run to its end, the number of events        *)
(* broadcast for a ride equals the number of writes persisted for that     *)
(* ride: one event for each INSERT or UPDATE that took effect, none for a  *)
(* request that changed nothing.                                           *)
(***************************************************************************)
EventsFor(i) == Cardinality({k \in DOMAIN bcast : bcast[k].rideId = i})

PersistedFor(i) ==
    Cardinality({r \in reqs :
        \/ r.kind = "request" /\ r.insertId = i
        \/ r.kind \in {"accept", "update"} /\ r.rideId = i /\ Matched(r)})

C4_OneEventPerTransition ==
    (\A r \in reqs : r.pc = "done")
    => \A i \in RideIds : EventsFor(i) = PersistedFor(i)

(***************************************************************************)
(* C5.  In every broadcast, each peer that is open either is sent the      *)
(* event exactly once or (its send having failed) is removed from the live *)
(* set: a failed send never keeps the event from another peer.             *)
(***************************************************************************)
C5_FailedPeerDropped ==
    [][bcast' # bcast
       => \A p \in Peers :
             ready[p] = "OPEN"
             => \/ inbox'[p] = Append(inbox[p], Last(bcast'))
                \/ p \notin Range(clients')]_vars

\* Peers A, B and C are open and B's send throws: C is sent nothing and B
\* stays in wss.clients.
C5_Case ==
    /\ clients = <<"A", "B", "C">>
    /\ \A p \in Peers : ready[p] = "OPEN"
    /\ Len(bcast) = 1
    /\ inbox["A"] = bcast /\ inbox["B"] = << >> /\ inbox["C"] = << >>

(***************************************************************************)
(* C6.  A decide whose statements execute: the first sets the named        *)
(* application's status to the verdict and changes no user; with verdict   *)
(* approved the second sets the named user's role to driver and the        *)
(* verified flag, and changes no other user; with verdict rejected no step *)
(* of the decide changes any user.                                         *)
(***************************************************************************)
C6_DecideEffect ==
    [][\A r \in reqs : \A n \in reqs' :
          (r.kind = "verify" /\ Moves(r, n))
          => /\ (r.pc = "db" /\ n.pre # "")
                => /\ \A a \in DOMAIN apps :
                        apps'[a].status =
                            IF a = r.appId THEN r.status ELSE apps[a].status
                   /\ users' = users
                   /\ (n.pc = "done") = (r.status = "rejected")
             /\ (r.pc = "db2" /\ n.code = 200)
                => /\ r.status = "approved"
                   /\ apps' = apps
                   /\ DOMAIN users' = DOMAIN users
                   /\ \A u \in DOMAIN users :
                        IF u = r.userId
                        THEN /\ users'[u].role = "driver"
                             /\ users'[u].verified = TRUE
                        ELSE users'[u] = users[u]
             /\ r.status = "rejected" => users' = users]_vars

\* An approval has run to its end on an application and a user that exist.
C6_Witness ==
    \E r \in reqs :
        /\ r.kind = "verify" /\ r.status = "approved"
        /\ r.pc = "done" /\ r.code = 200 /\ r.pre = "pending"
        /\ r.userId \in DOMAIN users
        /\ users[r.userId].role = "driver"
        /\ users[r.userId].verified

(***************************************************************************)
(* C7.  An application's status changes only from pending, and only to     *)
(* approved or rejected; a decide that finds the application already       *)
(* decided answers InvalidTransition (400).                                *)
(***************************************************************************)
C7_DecidedOnce ==
    [][/\ \A a \in DOMAIN apps :
            apps'[a].status # apps[a].status
            => /\ apps[a].status = "pending"
               /\ apps'[a].status \in {"approved", "rejected"}
       /\ \A n \in reqs' :
            (/\ n.kind = "verify" /\ n.pc = "done"
             /\ n.pre \in {"approved", "rejected"})
            => n.code = 400]_vars

(***************************************************************************)
(* C8.  A row added to ride_requests has status requested and no driver,   *)
(* and a ride in that state changes only in the step in which the UPDATE   *)
(* of an accept or an updateStatus naming that ride executes.              *)
(***************************************************************************)
C8_NewRideRequested ==
    [][/\ \A i \in DOMAIN rides' \ DOMAIN rides :
            /\ rides'[i].status = "requested"
            /\ rides'[i].driverId = NoDriver
       /\ \A i \in DOMAIN rides :
            (/\ rides[i].status = "requested"
             /\ rides[i].driverId = NoDriver
             /\ rides'[i] # rides[i])
            => \E r \in OnRide("accept", i) \cup OnRide("update", i) :
                  \E n \in reqs' :
                      Moves(r, n) /\ r.pc = "db" /\ n.pc = "cont"]_vars

\* Two rides exist; one has been cancelled and the other is as created.
C8_Witness ==
    /\ Len(rides) = 2
    /\ \E i, j \in DOMAIN rides :
          /\ rides[i].status = "cancelled"
          /\ rides[j].status = "requested" /\ rides[j].driverId = NoDriver

(***************************************************************************)
(* C9.  When the request-ride handler answers 200, its step has handed     *)
(* exactly one NEW_RIDE_REQUEST event to every peer that is open, and to   *)
(* no other; the event's rideId and fare are those of the response and of  *)
(* the stored ride.                                                        *)
(***************************************************************************)
C9_NewRideDelivered ==
    [][\A r \in reqs : \A n \in reqs' :
          (/\ r.kind = "request" /\ r.pc = "cont"
           /\ Moves(r, n) /\ n.code = 200)
          => /\ Len(bcast') = Len(bcast) + 1
             /\ LET ev == Last(bcast')
                IN  /\ ev.type = "NEW_RIDE_REQUEST"
                    /\ ev.rideId = n.insertId
                    /\ ev.fare = n.fare
                    /\ ev.rideId \in DOMAIN rides
                    /\ rides[ev.rideId].fare = ev.fare
                    /\ \A p \in Peers :
                          inbox'[p] = IF ready[p] = "OPEN"
                                      THEN Append(inbox[p], ev)
                                      ELSE inbox[p]]_vars

\* A ride request was answered 200 with two peers open and a third closing:
\* the two hold the event, the third does not.
C9_Witness ==
    \E r \in reqs :
        /\ r.kind = "request" /\ r.pc = "done" /\ r.code = 200
        /\ Cardinality({p \in Peers : inbox[p] = <<NewRideEvent(r)>>}) = 2
        /\ \E p \in Peers : ready[p] = "CLOSING" /\ inbox[p] = << >>

(***************************************************************************)
(* C10.  The fare of every stored ride is max(100, round(50 + road * 40))  *)
(* with road 1.5 times the great-circle distance from pickup to dropoff:   *)
(* an integer of at least 100, and exactly 100 when pickup is dropoff.     *)
(***************************************************************************)
\* 50 + 1.5 * d * 40 kilometres-fare with d in millimetres, in millionths.
RawFareMicro(d) == 50 * Million + 60 * d

C10_FareFormula ==
    \A i \in DOMAIN rides :
        LET d   == getDistanceFromLatLonInKm(
                       rides[i].pickup.lat, rides[i].pickup.lng,
                       rides[i].dropoff.lat, rides[i].dropoff.lng)
            raw == (RawFareMicro(d) + Million \div 2) \div Million
        IN  /\ rides[i].fare \in Nat
            /\ rides[i].fare = IF raw > 100 THEN raw ELSE 100
            /\ rides[i].fare >= 100
            /\ rides[i].pickup = rides[i].dropoff => rides[i].fare = 100

\* Three rides: no distance, a short trip under the floor, a longer trip.
C10_Witness ==
    \E i, j, k \in DOMAIN rides :
        /\ rides[i].pickup = rides[i].dropoff /\ rides[i].fare = 100
        /\ rides[j].pickup # rides[j].dropoff /\ rides[j].fare = 100
        /\ rides[k].fare > 200

(***************************************************************************)
(* C11.  For every ride, driverId is set exactly when the status is        *)
(* accepted or completed, or is declined or cancelled on a ride that an    *)
(* accept has taken effect on.                                             *)
(***************************************************************************)
\* The UPDATE of some accept has matched ride i.
WasAccepted(i) == \E r \in OnRide("accept", i) : Matched(r)

C11_DriverIffAccepted ==
    \A i \in DOMAIN rides :
        (rides[i].driverId # NoDriver)
        <=> \/ rides[i].status \in {"accepted", "completed"}
            \/ rides[i].status \in {"declined", "cancelled"} /\ WasAccepted(i)

(***************************************************************************)
(* C12.  The status of every ride is one of requested, accepted, declined, *)
(* cancelled, completed, and a step of updateStatus that changes a ride's  *)
(* status changes it to declined, cancelled or completed.                  *)
(***************************************************************************)
C12_UpdateOnlyToTerminal ==
    [][/\ \A i \in DOMAIN rides' :
            rides'[i].status \in
                {"requested", "accepted", "declined", "cancelled", "completed"}
       /\ \A r \in reqs : \A n \in reqs' :
            (r.kind = "update" /\ r.pc = "db" /\ Moves(r, n))
            => \A i \in DOMAIN rides :
                  rides'[i].status # rides[i].status
                  => rides'[i].status \in Terminal]_vars

(***************************************************************************)
(* C13.  When every handler has run to its end and every UPDATE naming a   *)
(* ride found that ride, the last event broadcast for the ride carries the *)
(* ride's stored status.                                                   *)
(***************************************************************************)
\* The status an event announces.
EventStatus(ev) ==
    IF ev.type = "NEW_RIDE_REQUEST" THEN "requested"
    ELSE IF ev.type = "RIDE_ACCEPTED" THEN "accepted"
    ELSE ev.status

\* The positions in bcast of the events for ride i.
EventsAt(i) == {k \in DOMAIN bcast : bcast[k].rideId = i}

C13_LastEventIsFinalStatus ==
    \A i \in DOMAIN rides :
        (/\ \A r \in reqs : r.pc = "done" /\ r.code = 200
         /\ \A r \in OnRide("accept", i) \cup OnRide("update", i) : Matched(r)
         /\ EventsAt(i) # {})
        => LET last == CHOOSE k \in EventsAt(i) :
                            \A j \in EventsAt(i) : j <= k
           IN  EventStatus(bcast[last]) = rides[i].status

(***************************************************************************)
(* C14.  A request whose write was persisted is answered 200, whatever     *)
(* happens to the sends of its broadcast.                                  *)
(***************************************************************************)
\* The write of request r took effect.
Persisted(r) ==
    \/ r.kind = "request" /\ r.insertId # 0
    \/ r.kind \in {"accept", "update"} /\ Matched(r)

C14_SendFailureNotSurfaced ==
    \A r \in reqs : (r.pc = "done" /\ Persisted(r)) => r.code = 200

(***************************************************************************)
(* C15.  No application is approved while the user its decide names lacks  *)
(* the driver role or the verified flag, and a decide answered with an     *)
(* error has changed nothing.                                              *)
(***************************************************************************)
C15_ApprovalAtomic ==
    \A r \in reqs :
        r.kind = "verify"
        => /\ (r.pc = "done" /\ r.code # 200) => ~Matched(r)
           /\ (/\ r.status = "approved" /\ Matched(r)
               /\ apps[r.appId].status = "approved"
               /\ r.userId \in DOMAIN users)
              => /\ users[r.userId].role = "driver"
                 /\ users[r.userId].verified

(***************************************************************************)
(* C16.  An accept or updateStatus whose rideId names no ride answers      *)
(* NotFound (404), changes no record and broadcasts no event.              *)
(***************************************************************************)
\* The event request r broadcasts.
EventOf(r) == IF r.kind = "accept" THEN AcceptedEvent(r) ELSE StatusEvent(r)

C16_NotFound ==
    [][/\ \A r \in reqs : \A n \in reqs' :
            (/\ r.kind \in {"accept", "update"} /\ r.pc = "db"
             /\ Moves(r, n) /\ r.rideId \notin DOMAIN rides)
            => rides' = rides
       /\ \A n \in reqs' :
            (/\ n.kind \in {"accept", "update"} /\ n.pc = "done"
             /\ n.pre = "none")
            => /\ n.code = 404
               /\ EventOf(n) \notin Range(bcast')]_vars

(***************************************************************************)
(* C17.  A peer's inbox changes only in a step that broadcasts an event,   *)
(* and then by that one event appended once, and only if the peer is in    *)
(* wss.clients and OPEN in that step; no step hands a peer an event that   *)
(* was broadcast earlier.                                                  *)
(***************************************************************************)
C17_AtMostOnceNoReplay ==
    [][\A p \in Peers :
          inbox'[p] # inbox[p]
          => /\ Len(bcast') = Len(bcast) + 1
             /\ SubSeq(bcast', 1, Len(bcast)) = bcast
             /\ inbox'[p] = Append(inbox[p], Last(bcast'))
             /\ p \in Range(clients)
             /\ ready[p] = "OPEN"]_vars

\* Every request was answered 200 (no send threw), the first client holds
\* both events and the client after it, open, holds none: it connected
\* after the broadcasts.
C17_Witness ==
    /\ Len(bcast) = 2
    /\ \A r \in reqs : r.pc = "done" /\ r.code = 200
    /\ Len(clients) = 2
    /\ inbox[clients[1]] = bcast
    /\ ready[clients[2]] = "OPEN" /\ inbox[clients[2]] = << >>

(***************************************************************************)
(* C18.  No step changes the fare, distanceKm, passengerId, pickup or      *)
(* dropoff of a stored ride.                                               *)
(***************************************************************************)
C18_FareImmutable ==
    [][\A i \in DOMAIN rides :
          /\ i \in DOMAIN rides'
          /\ rides'[i].fare = rides[i].fare
          /\ rides'[i].distanceKm = rides[i].distanceKm
          /\ rides'[i].passengerId = rides[i].passengerId
          /\ rides'[i].pickup = rides[i].pickup
          /\ rides'[i].dropoff = rides[i].dropoff]_vars

\* A ride with a fare above the minimum has been accepted and then
\* cancelled, both handlers answered 200.
C18_Witness ==
    \E i \in DOMAIN rides :
        /\ rides[i].fare > MinFare
        /\ rides[i].status = "cancelled" /\ rides[i].driverId # NoDriver
        /\ \A r \in OnRide("accept", i) \cup OnRide("update", i) :
              r.pc = "done" /\ r.code = 200
        /\ OnRide("update", i) # {}

(***************************************************************************)
(* C19.  A submit that is answered 200 has added one application, pending, *)
(* for the user it names, and changed no user; a user's role changes only  *)
(* in the second statement of a decide with verdict approved.              *)
(***************************************************************************)
C19_SubmitGrantsNothing ==
    [][/\ \A r \in reqs : \A n \in reqs' :
            (r.kind = "apply" /\ Moves(r, n) /\ n.code = 200)
            => /\ apps' = Append(apps, [userId |-> r.userId,
                                        status |-> "pending"])
               /\ users' = users
       /\ \A u \in DOMAIN users :
            users'[u].role # users[u].role
            => \E r \in reqs : \E n \in reqs' :
                  /\ r.kind = "verify" /\ r.status = "approved"
                  /\ r.pc = "db2" /\ Moves(r, n) /\ r.userId = u]_vars

\* Two applications have been submitted, one of them for a user who exists,
\* and that user is still a passenger.
C19_Witness ==
    /\ Len(apps) = 2
    /\ \A a \in DOMAIN apps : apps[a].status = "pending"
    /\ \E u \in DOMAIN users :
          /\ users[u].role = "passenger"
          /\ \E a \in DOMAIN apps : apps[a].userId = u

(***************************************************************************)
(* C20.  Every user with role driver has an approved application whose     *)
(* userId is that user.                                                    *)
(***************************************************************************)
C20_DriverHasApprovedApplication ==
    \A u \in DOMAIN users :
        users[u].role = "driver"
        => \E a \in DOMAIN apps :
              apps[a].userId = u /\ apps[a].status = "approved"
====
